---- MODULE Spec2Model ----
(***************************************************************************)
(* A model of simplify_onnx.py: the graph rewrite passes over an ONNX      *)
(* ModelProto and the process() pipeline that applies them.                *)
(*                                                                         *)
(* A name (node name, tensor name, initializer name) is a sequence of      *)
(* one-character strings, so that rename() and the f-strings that derive   *)
(* new names are computed character by character.                          *)
(***************************************************************************)
EXTENDS Integers, Sequences, FiniteSets, TLC

VARIABLES pc, onnx_model, ret, ret2, args, fn_idx, invoked, checked, emitted, error

vars == <<pc, onnx_model, ret, ret2, args, fn_idx, invoked, checked, emitted, error>>

(***************************************************************************)
(* Bounds of the model.                                                    *)
(***************************************************************************)
MaxNameLen == 3

MaxModifiers == 3

MaxDim == 3

(***************************************************************************)
(* Generic helpers on sequences.                                           *)
(***************************************************************************)
Range(s) == {s[k] : k \in DOMAIN s}

SeqMap(F(_), s) == [k \in DOMAIN s |-> F(s[k])]

RECURSIVE SumSeq(_)
SumSeq(s) == IF s = <<>> THEN 0 ELSE Head(s) + SumSeq(Tail(s))

Ones(n) == [k \in 1..n |-> 1]

\* the names of length 1..n over the characters cs
NamesUpTo(cs, n) == UNION {[1..k -> cs] : k \in 1..n}

(***************************************************************************)
(* The ModelProto: graph.node, graph.initializer, graph.input,             *)
(* graph.output and opset_import[0].version.  A node carries, besides its  *)
(* proto fields, the shapes its outputs have when the graph is executed    *)
(* (what the onnxruntime session reports for them).                        *)
(***************************************************************************)
Node(name, op_type, input, output, attribute, shape) ==
    [name |-> name, op_type |-> op_type, input |-> input, output |-> output,
     attribute |-> attribute, shape |-> shape]

Model(node, initializer, input, output, opset) ==
    [node |-> node, initializer |-> initializer, input |-> input,
     output |-> output, opset |-> opset]

Tensor(name, val) == [name |-> name, val |-> val]

ValueInfo(name, shape) == [name |-> name, shape |-> shape]

EmptyModel == Model(<<>>, <<>>, <<>>, <<>>, 13)

\* what a pass hands back: the new model, or the exception it raised
Returned(m) == [raised |-> FALSE, error |-> "", model |-> m]

Raised(e) == [raised |-> TRUE, error |-> e, model |-> EmptyModel]

NoRet == [raised |-> FALSE, error |-> "none", model |-> EmptyModel]

NodeOutputs(m) == UNION {Range(m.node[k].output) : k \in DOMAIN m.node}

NodeInputs(m) == UNION {Range(m.node[k].input) : k \in DOMAIN m.node}

InitializerNames(m) == {m.initializer[k].name : k \in DOMAIN m.initializer}

GraphInputNames(m) == {m.input[k].name : k \in DOMAIN m.input}

GraphOutputNames(m) == {m.output[k].name : k \in DOMAIN m.output}

NodeNames(m) == {m.node[k].name : k \in DOMAIN m.node}

\* every name a node consumes is a graph input, an initializer or a node output
InputsResolved(m) ==
    NodeInputs(m) \subseteq (GraphInputNames(m) \cup InitializerNames(m) \cup NodeOutputs(m))

(***************************************************************************)
(* rename and simplify_name.                                               *)
(***************************************************************************)
\* str.replace(old, "_") for a one-character old
Replace(name, old) == [k \in DOMAIN name |-> IF name[k] = old THEN "_" ELSE name[k]]

\* a slip: the separators are stripped at the front but never replaced
rename_strip_only(name) ==
    Replace(IF Len(name) > 0 /\ name[1] = "/" THEN Tail(name) ELSE name, ":")

rename(name) ==
    LET stripped == IF Len(name) > 0 /\ name[1] = "/" THEN Tail(name) ELSE name
    IN  Replace(Replace(stripped, "/"), ":")

simplify_name(model) ==
    LET \* name_map: every original node input/output name -> rename(it)
        name_map == [n \in NodeInputs(model) \cup NodeOutputs(model) |-> rename(n)]
        new_node(node) == [node EXCEPT !.name = rename(@),
                                       !.input = SeqMap(rename, @),
                                       !.output = SeqMap(rename, @)]
        new_init(init) == IF init.name \in DOMAIN name_map
                          THEN [init EXCEPT !.name = name_map[init.name]]
                          ELSE init
    IN  Returned([model EXCEPT !.node = SeqMap(new_node, @),
                               !.initializer = SeqMap(new_init, @)])

(***************************************************************************)
(* infer_shapes: the nodes whose op_type is in ops or whose name is in     *)
(* names are selected; the session is run for the first output of each,    *)
(* and the result maps that output name to the shape the run produced.     *)
(***************************************************************************)
Selected(model, ops, names) ==
    {k \in DOMAIN model.node :
        model.node[k].op_type \in ops \/ model.node[k].name \in names}

infer_shapes(model, ops, names) ==
    LET sel == Selected(model, ops, names)
        output_names == {model.node[k].output[1] : k \in sel}
        \* dict comprehension over zip(outputs, output_names): the last entry wins
        last(t) == CHOOSE k \in sel :
                      /\ model.node[k].output[1] = t
                      /\ \A j \in sel : model.node[j].output[1] = t => j <= k
    IN  [t \in output_names |-> model.node[last(t)].shape[1]]

(***************************************************************************)
(* replace_input_name and replace_output_name.                             *)
(***************************************************************************)
S_input == <<"i", "n", "p", "u", "t">>

S_output == <<"o", "u", "t", "p", "u", "t">>

replace_input_name(model) ==
    LET old_name == model.input[1].name
        new_node(node) ==
            [node EXCEPT !.input = [i \in DOMAIN @ |-> IF @[i] = old_name THEN S_input ELSE @[i]]]
    IN  Returned([model EXCEPT !.input[1].name = S_input,
                               !.node = SeqMap(new_node, @)])

replace_output_name(model) ==
    LET old_name == model.output[1].name
        new_node(node) ==
            [node EXCEPT !.output = [i \in DOMAIN @ |-> IF @[i] = old_name THEN S_output ELSE @[i]]]
    IN  Returned([model EXCEPT !.output[1].name = S_output,
                               !.node = SeqMap(new_node, @)])

(***************************************************************************)
(* resolve_reduce_mean_axis.                                               *)
(***************************************************************************)
Attribute(name, ints, f) == [name |-> name, ints |-> ints, f |-> f]

resolve_reduce_mean_axis(model) ==
    LET reduce_mean_dims == infer_shapes(model, {"ReduceMean"}, {})
        \* reduce_mean_dims[node.input[0]] is read for each negative axis
        lookup(node) ==
            \E a \in DOMAIN node.attribute :
                /\ node.attribute[a].name = "axes"
                /\ \E i \in DOMAIN node.attribute[a].ints : node.attribute[a].ints[i] < 0
        new_attribute(node, attribute) ==
            IF attribute.name = "axes"
            THEN [attribute EXCEPT !.ints =
                     [i \in DOMAIN @ |->
                         IF @[i] < 0 THEN Len(reduce_mean_dims[node.input[1]]) + @[i]
                         ELSE @[i]]]
            ELSE attribute
        new_node(node) ==
            IF node.op_type # "ReduceMean" THEN node
            ELSE [node EXCEPT !.attribute =
                     [a \in DOMAIN @ |-> new_attribute(node, @[a])]]
    IN  IF \E k \in DOMAIN model.node :
              /\ model.node[k].op_type = "ReduceMean"
              /\ lookup(model.node[k])
              /\ model.node[k].input[1] \notin DOMAIN reduce_mean_dims
        THEN Raised("KeyError")
        ELSE Returned([model EXCEPT !.node = SeqMap(new_node, @)])

(***************************************************************************)
(* reshape_output.                                                         *)
(***************************************************************************)
S_slash_output == <<"/", "o", "u", "t", "p", "u", "t">>

S_reshape_param == <<"_", "r", "e", "s", "h", "a", "p", "e", "_", "p", "a", "r", "a", "m">>

S_reshape == <<"_", "r", "e", "s", "h", "a", "p", "e">>

\* list.remove(x): the first occurrence goes, the rest keep their order
RemoveFirst(s, x) ==
    LET p == CHOOSE q \in DOMAIN s : s[q] = x /\ \A j \in 1..(q - 1) : s[j] # x
    IN  SubSeq(s, 1, p - 1) \o SubSeq(s, p + 1, Len(s))

\* output_node_map[t]: the last node that lists t among its outputs
OutputNode(model, t) ==
    CHOOSE k \in DOMAIN model.node :
        /\ t \in Range(model.node[k].output)
        /\ \A j \in DOMAIN model.node : t \in Range(model.node[j].output) => j <= k

\* the body of the loop for one graph output whose dims has fewer than 4 entries
reshape_output_body(model, o, dims, previous) ==
    LET output == model.output[o]
        previous_node == model.node[previous]
        previous_node_output_name == previous_node.name \o S_slash_output
        new_shape == <<-1>> \o Ones(4 - Len(dims)) \o Tail(dims)
        reshape_param == Tensor(output.name \o S_reshape_param, new_shape)
        reshape_node == Node(output.name \o S_reshape, "Reshape",
                             <<previous_node_output_name, reshape_param.name>>,
                             <<output.name>>, <<>>,
                             <<<<dims[1]>> \o Tail(new_shape)>>)
        \* len(dims) pops, then dims[0] and new_shape[1:] appended
        kept == SubSeq(output.shape, 1, Len(output.shape) - Len(dims))
    IN  [model EXCEPT
            !.node = [@ EXCEPT ![previous].output =
                         RemoveFirst(@, output.name) \o <<previous_node_output_name>>]
                     \o <<reshape_node>>,
            !.initializer = @ \o <<reshape_param>>,
            !.output[o].shape = kept \o <<dims[1]>> \o Tail(new_shape)]

RECURSIVE reshape_output_loop(_, _, _, _)
\* for output in model.graph.output, from the o-th on; output_node_map holds
\* references to the nodes, so it is the node indices of the argument model
reshape_output_loop(model, output_dims, arg, o) ==
    IF o > Len(model.output) THEN Returned(model)
    ELSE LET name == model.output[o].name
         IN  IF name \notin DOMAIN output_dims THEN Raised("KeyError")
             ELSE IF Len(output_dims[name]) >= 4
                  THEN reshape_output_loop(model, output_dims, arg, o + 1)
             ELSE IF name \notin NodeOutputs(arg) THEN Raised("KeyError")
             ELSE IF Len(output_dims[name]) = 0 THEN Raised("IndexError")
             ELSE IF name \notin Range(model.node[OutputNode(arg, name)].output)
                  THEN Raised("ValueError")
             ELSE IF Len(model.output[o].shape) < Len(output_dims[name])
                  THEN Raised("IndexError")
             ELSE reshape_output_loop(
                      reshape_output_body(model, o, output_dims[name], OutputNode(arg, name)),
                      output_dims, arg, o + 1)

reshape_output(model) ==
    reshape_output_loop(model, infer_shapes(model, {}, GraphOutputNames(model)), model, 1)

(***************************************************************************)
(* add_reshape_after_matmul.                                               *)
(***************************************************************************)
\* the body of the loop for the MatMul node k whose output_shape has 4 entries
add_reshape_body(model, k, output_shape) ==
    LET node == model.node[k]
        output_name == node.output[1]
        new_shape == <<-1>> \o Tail(output_shape)
        temp_output_name == output_name \o S_reshape
        reshape_param == Tensor(output_name \o S_reshape_param, new_shape)
        reshape_node == Node(temp_output_name, "Reshape",
                             <<temp_output_name, reshape_param.name>>,
                             <<output_name>>, <<>>, <<output_shape>>)
    IN  [model EXCEPT
            !.node = [@ EXCEPT ![k].output[1] = temp_output_name] \o <<reshape_node>>,
            !.initializer = @ \o <<reshape_param>>]

RECURSIVE add_reshape_loop(_, _, _)
\* for node in model.graph.node, from the k-th on; the nodes the loop appends
\* are reached by it as well
add_reshape_loop(model, matmul_dims, k) ==
    IF k > Len(model.node) THEN Returned(model)
    ELSE IF model.node[k].op_type # "MatMul"
         THEN add_reshape_loop(model, matmul_dims, k + 1)
    ELSE IF model.node[k].output[1] \notin DOMAIN matmul_dims THEN Raised("KeyError")
    ELSE IF Len(matmul_dims[model.node[k].output[1]]) # 4
         THEN add_reshape_loop(model, matmul_dims, k + 1)
    ELSE add_reshape_loop(
             add_reshape_body(model, k, matmul_dims[model.node[k].output[1]]),
             matmul_dims, k + 1)

add_reshape_after_matmul(model) ==
    add_reshape_loop(model, infer_shapes(model, {"MatMul"}, {}), 1)

(***************************************************************************)
(* merge_slice.                                                            *)
(***************************************************************************)
S_slash_split == <<"/", "s", "p", "l", "i", "t">>

S_slash_split_param == <<"/", "s", "p", "l", "i", "t", "_", "p", "a", "r", "a", "m">>

\* onnx.numpy_helper.to_array(initializers[name])[0]
InitializerFirst(model, name) ==
    (CHOOSE t \in Range(model.initializer) : t.name = name).val[1]

\* dict(node=node, starts=starts, ends=ends, axis=axis) of the k-th node
SliceEntry(model, k) ==
    [node |-> k,
     starts |-> InitializerFirst(model, model.node[k].input[2]),
     ends |-> InitializerFirst(model, model.node[k].input[3]),
     axis |-> InitializerFirst(model, model.node[k].input[4])]

RECURSIVE SliceKeys(_, _, _)
\* slice_dict.keys(): the sliced tensors in the order their first Slice appears
SliceKeys(model, k, seen) ==
    IF k > Len(model.node) THEN <<>>
    ELSE IF model.node[k].op_type = "Slice" /\ model.node[k].input[1] \notin seen
         THEN <<model.node[k].input[1]>>
                  \o SliceKeys(model, k + 1, seen \cup {model.node[k].input[1]})
         ELSE SliceKeys(model, k + 1, seen)

RECURSIVE SliceList(_, _, _)
\* slice_dict[input_name] as appended, in node order
SliceList(model, input_name, k) ==
    IF k > Len(model.node) THEN <<>>
    ELSE (IF model.node[k].op_type = "Slice" /\ model.node[k].input[1] = input_name
          THEN <<SliceEntry(model, k)>> ELSE <<>>)
         \o SliceList(model, input_name, k + 1)

RECURSIVE InsertByStarts(_, _)
\* e put into the sorted list after every entry whose starts is not larger
InsertByStarts(sorted, e) ==
    IF sorted = <<>> THEN <<e>>
    ELSE IF Head(sorted).starts <= e.starts
         THEN <<Head(sorted)>> \o InsertByStarts(Tail(sorted), e)
         ELSE <<e>> \o sorted

RECURSIVE SortByStarts(_)
\* slice_nodes.sort(key=lambda node: node["starts"]), a stable sort
SortByStarts(l) ==
    IF l = <<>> THEN <<>>
    ELSE InsertByStarts(SortByStarts(SubSeq(l, 1, Len(l) - 1)), l[Len(l)])

SliceNodes(model, input_name) == SortByStarts(SliceList(model, input_name, 1))

Widths(slice_nodes) == [i \in DOMAIN slice_nodes |-> slice_nodes[i].ends - slice_nodes[i].starts]

\* output_dims[input_name][axis], a Python index
DimAt(dims, axis) == dims[IF axis < 0 THEN Len(dims) + axis + 1 ELSE axis + 1]

\* the group passes lines 383-399: more than one slice, and the widths sum to
\* the dimension (the two loops at 386-388 and 391-393 only continue themselves)
Merges(slice_nodes, dims) ==
    /\ Len(slice_nodes) # 1
    /\ DimAt(dims, slice_nodes[1].axis) = SumSeq(Widths(slice_nodes))

RECURSIVE merge_slice_loop(_, _, _, _, _, _)
\* for node in model.graph.node, from the k-th on; last is slice_nodes as the
\* loop at 379 left it
merge_slice_loop(model, to_merge, last, k, processed, acc) ==
    IF k > Len(model.node) THEN acc
    ELSE LET node == model.node[k]
         IN  IF node.name \in processed
             THEN merge_slice_loop(model, to_merge, last, k + 1, processed, acc)
             ELSE IF node.op_type # "Slice" \/ node.name \notin DOMAIN to_merge
             THEN merge_slice_loop(model, to_merge, last, k + 1, processed,
                                   [acc EXCEPT !.node = @ \o <<node>>])
             ELSE LET brother == to_merge[node.name]
                      axis == brother[1].axis
                      splits == Widths(brother)
                      outputs == [i \in DOMAIN last |-> model.node[last[i].node].output[1]]
                      shapes == [i \in DOMAIN last |-> model.node[last[i].node].shape[1]]
                      split_param == Tensor(node.name \o S_slash_split_param, splits)
                      new_node ==
                          IF model.opset < 13
                          THEN Node(node.name \o S_slash_split, "Split", <<node.input[1]>>,
                                    outputs,
                                    <<Attribute("axis", <<axis>>, 0),
                                      Attribute("split", splits, 0)>>, shapes)
                          ELSE Node(node.name \o S_slash_split, "Split",
                                    <<node.input[1], split_param.name>>, outputs,
                                    <<Attribute("axis", <<axis>>, 0)>>, shapes)
                  IN  merge_slice_loop(
                          model, to_merge, last, k + 1,
                          processed \cup {model.node[last[i].node].name : i \in DOMAIN last},
                          [acc EXCEPT !.node = @ \o <<new_node>>,
                                      !.initializer = IF model.opset < 13 THEN @
                                                      ELSE @ \o <<split_param>>])

merge_slice(model) ==
    LET keys == SliceKeys(model, 1, {})
        output_dims == infer_shapes(model, {}, Range(keys))
        \* the groups whose shape is looked up at line 398
        looked_up == {t \in Range(keys) : Len(SliceNodes(model, t)) # 1}
        merged == {t \in looked_up : Merges(SliceNodes(model, t), output_dims[t])}
        to_merge == [n \in {model.node[e.node].name :
                               e \in UNION {Range(SliceNodes(model, t)) : t \in merged}} |->
                        SliceNodes(model,
                            CHOOSE t \in merged :
                                \E e \in Range(SliceNodes(model, t)) : model.node[e.node].name = n)]
        last == IF keys = <<>> THEN <<>> ELSE SliceNodes(model, keys[Len(keys)])
    IN  IF \E t \in looked_up : t \notin DOMAIN output_dims
        THEN Raised("KeyError")
        ELSE Returned(merge_slice_loop(model, to_merge, last, 1, {},
                                       [model EXCEPT !.node = <<>>]))

(***************************************************************************)
(* fuse_conv_and_bn.  A tensor value is a term: a constant of the model    *)
(* file, or an array the pass computes from other values.                  *)
(***************************************************************************)
S_new_weight == <<"_", "n", "e", "w", "_", "w", "e", "i", "g", "h", "t">>

S_new_bias == <<"_", "n", "e", "w", "_", "b", "i", "a", "s">>

Const(k) == [op |-> "const", k |-> k, args |-> <<>>]

\* np.zeros(conv_weight.shape[0])
Zeros(conv_weight) == [op |-> "zeros", k |-> 0, args |-> <<conv_weight>>]

\* conv_weight * (bn_scale / np.sqrt(bn_var + eps)).reshape((-1, 1, 1, 1))
NewWeight(conv_weight, bn_scale, bn_var, eps) ==
    [op |-> "new_weight", k |-> eps, args |-> <<conv_weight, bn_scale, bn_var>>]

\* bn_scale * (conv_bias - bn_mean) / np.sqrt(bn_var + eps) + bn_bias
NewBias(conv_bias, bn_scale, bn_bias, bn_mean, bn_var, eps) ==
    [op |-> "new_bias", k |-> eps, args |-> <<conv_bias, bn_scale, bn_bias, bn_mean, bn_var>>]

\* node_name_to_node[name]: the last node of that name
NodeByName(model, name) ==
    CHOOSE k \in DOMAIN model.node :
        /\ model.node[k].name = name
        /\ \A j \in DOMAIN model.node : model.node[j].name = name => j <= k

\* the loop's state after a BatchNormalization node bn behind the Conv node conv:
\* st.node are the node objects, st.tensor is tensor_name_to_tensor,
\* st.new_nodes the node objects appended so far, by index
fuse_body(st, bn, conv) ==
    LET conv_node == st.node[conv]
        bn_node == st.node[bn]
        has_bias == Len(conv_node.input) = 3
        conv_weight == st.tensor[conv_node.input[2]]
        conv_bias == IF has_bias THEN st.tensor[conv_node.input[3]] ELSE Zeros(conv_weight)
        bn_scale == st.tensor[bn_node.input[2]]
        bn_bias == st.tensor[bn_node.input[3]]
        bn_mean == st.tensor[bn_node.input[4]]
        bn_var == st.tensor[bn_node.input[5]]
        eps == bn_node.attribute[1].f
        new_weight == NewWeight(conv_weight, bn_scale, bn_var, eps)
        new_bias == NewBias(conv_bias, bn_scale, bn_bias, bn_mean, bn_var, eps)
        weight_name == bn_node.name \o S_new_weight
        bias_name == bn_node.name \o S_new_bias
        \* with a bias only the local dict entry of the old bias name changes
        bias_key == IF has_bias THEN conv_node.input[3] ELSE bias_name
        new_input == [conv_node.input EXCEPT ![2] = weight_name]
                         \o (IF has_bias THEN <<>> ELSE <<bias_name>>)
        set(f, key, v) == [n \in DOMAIN f \cup {key} |-> IF n = key THEN v ELSE f[n]]
    IN  [node |-> [st.node EXCEPT ![conv].input = new_input,
                                  ![conv].output[1] = bn_node.output[1]],
         tensor |-> set(set(st.tensor, weight_name, new_weight), bias_key, new_bias),
         initializer |-> st.initializer
                             \o <<Tensor(weight_name, new_weight), Tensor(bias_name, new_bias)>>,
         new_nodes |-> st.new_nodes \o <<conv>>]

RECURSIVE fuse_loop(_, _, _)
\* for node in model.graph.node, from the k-th on
fuse_loop(model, st, k) ==
    IF k > Len(model.node)
    THEN Returned([model EXCEPT !.node = [i \in DOMAIN st.new_nodes |-> st.node[st.new_nodes[i]]],
                                !.initializer = st.initializer])
    ELSE IF st.node[k].op_type # "BatchNormalization"
         THEN fuse_loop(model, [st EXCEPT !.new_nodes = @ \o <<k>>], k + 1)
         ELSE IF st.node[k].input[1] \notin NodeNames(model) THEN Raised("KeyError")
         ELSE IF st.node[NodeByName(model, st.node[k].input[1])].op_type # "Conv"
              THEN fuse_loop(model, [st EXCEPT !.new_nodes = @ \o <<k>>], k + 1)
         ELSE LET conv == NodeByName(model, st.node[k].input[1])
              IN  IF \/ \E i \in 2..5 : st.node[k].input[i] \notin DOMAIN st.tensor
                     \/ \E j \in 2..Len(st.node[conv].input) :
                            j <= 3 /\ st.node[conv].input[j] \notin DOMAIN st.tensor
                  THEN Raised("KeyError")
                  ELSE fuse_loop(model, fuse_body(st, k, conv), k + 1)

fuse_conv_and_bn(model) ==
    fuse_loop(model,
              [node |-> model.node,
               tensor |-> [n \in InitializerNames(model) |->
                              (CHOOSE t \in Range(model.initializer) : t.name = n).val],
               initializer |-> model.initializer,
               new_nodes |-> <<>>],
              1)

(***************************************************************************)
(* Applying one pass to an argument model: the state every pass            *)
(* specification starts from, the pass then being called on it (and, for   *)
(* idempotence, once more on what it returned).  The pipeline variables    *)
(* stay idle.                                                              *)
(***************************************************************************)
\* the EasyDict main() hands to process()
Args(onnx_file, modifiers, save_intermediate) ==
    [onnx_file |-> onnx_file, modifiers |-> modifiers, save_intermediate |-> save_intermediate]

NoError == [raised_by |-> "", error |-> ""]

PipelineIdle ==
    /\ args = Args(EmptyModel, <<>>, FALSE)
    /\ fn_idx = 0
    /\ invoked = <<>>
    /\ checked = <<>>
    /\ emitted = <<>>
    /\ error = NoError

PassInit(models) ==
    /\ pc = "start"
    /\ onnx_model \in models
    /\ ret = NoRet
    /\ ret2 = NoRet
    /\ PipelineIdle

pipeline_vars == <<args, fn_idx, invoked, checked, emitted, error>>

(***************************************************************************)
(* simplify_name on graphs whose names carry separators and colons.        *)
(***************************************************************************)
NameChars == {"/", ":", "a"}

GraphNames == NamesUpTo(NameChars, MaxNameLen)

WeightNames == {<<"/", "/", "w">>, <<"w", ":", "0">>, <<"/", "w">>, <<"w">>}

\* one node named t reading graph input t (and, when ref, initializer w),
\* writing the graph output t:o
NameModel(t, w, ref) ==
    LET o == t \o <<":", "o">>
    IN  Model(<<Node(t, "Add", IF ref THEN <<t, w>> ELSE <<t>>, <<o>>, <<>>, <<<<1>>>>)>>,
              <<Tensor(w, <<0>>)>>,
              <<ValueInfo(t, <<1>>)>>,
              <<ValueInfo(o, <<1>>)>>,
              13)

NameModels == {NameModel(t, w, ref) : t \in GraphNames, w \in WeightNames, ref \in BOOLEAN}

InitName == PassInit(NameModels)

Call_simplify_name ==
    /\ pc = "start"
    /\ ret' = simplify_name(onnx_model)
    /\ pc' = "simplify_name"
    /\ UNCHANGED <<onnx_model, ret2, pipeline_vars>>

Call_simplify_name_again ==
    /\ pc = "simplify_name"
    /\ ~ret.raised
    /\ ret2' = simplify_name(ret.model)
    /\ pc' = "simplify_name_twice"
    /\ UNCHANGED <<onnx_model, ret, pipeline_vars>>

NextName == Call_simplify_name \/ Call_simplify_name_again

SpecName == InitName /\ [][NextName]_vars

\* all the names a model uses
AllNames(m) ==
    NodeNames(m) \cup NodeInputs(m) \cup NodeOutputs(m) \cup InitializerNames(m)
        \cup GraphInputNames(m) \cup GraphOutputNames(m)

RenamedEverywhere(m, r) ==
    /\ Len(r.node) = Len(m.node)
    /\ \A k \in DOMAIN m.node :
          /\ r.node[k].name = rename(m.node[k].name)
          /\ r.node[k].input = SeqMap(rename, m.node[k].input)
          /\ r.node[k].output = SeqMap(rename, m.node[k].output)
    /\ Len(r.initializer) = Len(m.initializer)
    /\ \A k \in DOMAIN m.initializer : r.initializer[k].name = rename(m.initializer[k].name)
    /\ Len(r.input) = Len(m.input)
    /\ \A k \in DOMAIN m.input : r.input[k].name = rename(m.input[k].name)
    /\ Len(r.output) = Len(m.output)
    /\ \A k \in DOMAIN m.output : r.output[k].name = rename(m.output[k].name)

RenameInjectiveOn(m) ==
    \A a, b \in AllNames(m) : rename(a) = rename(b) => a = b

\* C9: after simplify_name every node name, node input/output name,
\* initializer name and graph input/output name is rename(its original name);
\* and when rename is injective on the argument's names, every node input of
\* the result still names a graph input, an initializer or a node output.
C9_RenamedConsistently ==
    pc = "simplify_name" =>
        /\ ~ret.raised
        /\ RenamedEverywhere(onnx_model, ret.model)
        /\ (RenameInjectiveOn(onnx_model) /\ InputsResolved(onnx_model))
               => InputsResolved(ret.model)

\* the names of a model that simplify_name is stated to agree on
SameNames(a, b) ==
    /\ SeqMap(LAMBDA n : <<n.name, n.input, n.output>>, a.node)
         = SeqMap(LAMBDA n : <<n.name, n.input, n.output>>, b.node)
    /\ SeqMap(LAMBDA i : i.name, a.initializer) = SeqMap(LAMBDA i : i.name, b.initializer)
    /\ SeqMap(LAMBDA i : i.name, a.input) = SeqMap(LAMBDA i : i.name, b.input)
    /\ SeqMap(LAMBDA i : i.name, a.output) = SeqMap(LAMBDA i : i.name, b.output)

\* C10: simplify_name(simplify_name(g)) has the same node names, node
\* inputs/outputs, initializer names and graph input/output names as
\* simplify_name(g).
C10_RenameIdempotent ==
    pc = "simplify_name_twice" =>
        /\ ~ret.raised /\ ~ret2.raised
        /\ SameNames(ret2.model, ret.model)

\* a model with a name that starts with two separators and a name with a
\* colon, renamed twice, the first renaming having changed it
C10_Witness ==
    /\ pc = "simplify_name_twice"
    /\ \E n \in AllNames(onnx_model) : Len(n) >= 2 /\ n[1] = "/" /\ n[2] = "/"
    /\ \E n \in AllNames(onnx_model) : \E k \in DOMAIN n : n[k] = ":"
    /\ ~SameNames(ret.model, onnx_model)

(***************************************************************************)
(* replace_input_name / replace_output_name on two-node graphs:            *)
(*   A: x -> y,   B: y (and x) -> z,   graph outputs drawn from y, z.      *)
(***************************************************************************)
IOOutputs(y, z) == {<<y, z>>, <<z, y>>, <<z>>, <<y>>}

IOModel(x, y, z, outs, both) ==
    Model(<<Node(<<"A">>, "Relu", <<x>>, <<y>>, <<>>, <<<<1, 2>>>>),
            Node(<<"B">>, "Add", IF both THEN <<y, x>> ELSE <<y, y>>, <<z>>, <<>>, <<<<1, 2>>>>)>>,
          <<>>,
          <<ValueInfo(x, <<1, 2>>)>>,
          [k \in DOMAIN outs |-> ValueInfo(outs[k], <<1, 2>>)],
          13)

IOModels ==
    {IOModel(x, y, z, outs, both) :
        x \in {<<"x">>, <<"/", "x">>, S_input},
        y \in {<<"y">>, S_output},
        z \in {<<"z">>},
        outs \in IOOutputs(<<"y">>, <<"z">>) \cup IOOutputs(S_output, <<"z">>),
        both \in BOOLEAN}

\* the graphs of the family whose outputs are tensors of the graph
IOWellFormed(m) == GraphOutputNames(m) \subseteq NodeOutputs(m)

InitIO == PassInit({m \in IOModels : IOWellFormed(m)})

Call_replace_input_name ==
    /\ pc = "start"
    /\ ret' = replace_input_name(onnx_model)
    /\ pc' = "replace_input_name"
    /\ UNCHANGED <<onnx_model, ret2, pipeline_vars>>

Call_replace_output_name ==
    /\ pc = "start"
    /\ ret' = replace_output_name(onnx_model)
    /\ pc' = "replace_output_name"
    /\ UNCHANGED <<onnx_model, ret2, pipeline_vars>>

NextIO == Call_replace_input_name \/ Call_replace_output_name

SpecIO == InitIO /\ [][NextIO]_vars

NodeRefs(m) == NodeInputs(m) \cup NodeOutputs(m)

\* C8: after replace_input_name (replace_output_name) the first graph input
\* (output) is named input (output) and no node input or output refers to
\* the old name any more; when the name was canonical already the returned
\* graph equals the argument.
C8_CanonicalNames ==
    /\ pc = "replace_input_name" =>
          /\ ~ret.raised
          /\ ret.model.input[1].name = S_input
          /\ onnx_model.input[1].name # S_input
                => onnx_model.input[1].name \notin NodeRefs(ret.model)
          /\ onnx_model.input[1].name = S_input => ret.model = onnx_model
    /\ pc = "replace_output_name" =>
          /\ ~ret.raised
          /\ ret.model.output[1].name = S_output
          /\ onnx_model.output[1].name # S_output
                => onnx_model.output[1].name \notin NodeRefs(ret.model)
          /\ onnx_model.output[1].name = S_output => ret.model = onnx_model

(***************************************************************************)
(* resolve_reduce_mean_axis on a ReduceMean whose input of rank r comes    *)
(* from a graph input, from a Relu, or from another ReduceMean.            *)
(***************************************************************************)
Producers == {"input", "Relu", "ReduceMean"}

AxesOf(r) == UNION {[1..n -> (0 - r)..(r - 1)] : n \in 1..2}

Twos(n) == [k \in 1..n |-> 2]

\* the shape of a keepdims=1 mean of a tensor of shape s over axes
ReducedShape(s, axes) ==
    [d \in DOMAIN s |->
        IF \E i \in DOMAIN axes : axes[i] = d - 1 \/ axes[i] + Len(s) = d - 1
        THEN 1 ELSE s[d]]

ReduceModel(producer, r, axes) ==
    LET x == <<"x">>
        t == IF producer = "input" THEN x ELSE <<"t">>
        first == IF producer = "input" THEN <<>>
                 ELSE IF producer = "Relu"
                      THEN <<Node(<<"/", "r">>, "Relu", <<x>>, <<t>>, <<>>, <<Twos(r)>>)>>
                      ELSE <<Node(<<"/", "m">>, "ReduceMean", <<x>>, <<t>>,
                                  <<Attribute("axes", <<0>>, 0), Attribute("keepdims", <<1>>, 0)>>,
                                  <<ReducedShape(Twos(r), <<0>>)>>)>>
        tshape == IF producer = "ReduceMean" THEN ReducedShape(Twos(r), <<0>>) ELSE Twos(r)
    IN  Model(first \o
              <<Node(<<"/", "n">>, "ReduceMean", <<t>>, <<<<"y">>>>,
                     <<Attribute("keepdims", <<1>>, 0), Attribute("axes", axes, 0)>>,
                     <<ReducedShape(tshape, axes)>>)>>,
              <<>>,
              <<ValueInfo(x, Twos(r))>>,
              <<ValueInfo(<<"y">>, ReducedShape(tshape, axes))>>,
              13)

ReduceModels ==
    {ReduceModel(producer, r, axes) :
        producer \in Producers, r \in 1..MaxDim, axes \in UNION {AxesOf(q) : q \in 1..MaxDim}}

\* the axes drawn are axes of the rank drawn
ReduceWellFormed(m) ==
    \A k \in DOMAIN m.node : \A a \in DOMAIN m.node[k].attribute :
        m.node[k].attribute[a].name = "axes" =>
            \A i \in DOMAIN m.node[k].attribute[a].ints :
                LET ax == m.node[k].attribute[a].ints[i]
                IN  ax >= 0 - Len(m.input[1].shape) /\ ax < Len(m.input[1].shape)

InitReduce == PassInit({m \in ReduceModels : ReduceWellFormed(m)})

Call_resolve_reduce_mean_axis ==
    /\ pc = "start"
    /\ ret' = resolve_reduce_mean_axis(onnx_model)
    /\ pc' = "resolve_reduce_mean_axis"
    /\ UNCHANGED <<onnx_model, ret2, pipeline_vars>>

Call_resolve_reduce_mean_axis_again ==
    /\ pc = "resolve_reduce_mean_axis"
    /\ ~ret.raised
    /\ ret2' = resolve_reduce_mean_axis(ret.model)
    /\ pc' = "resolve_reduce_mean_axis_twice"
    /\ UNCHANGED <<onnx_model, ret, pipeline_vars>>

NextReduce == Call_resolve_reduce_mean_axis \/ Call_resolve_reduce_mean_axis_again

SpecReduce == InitReduce /\ [][NextReduce]_vars

\* the shape of tensor t when the model is executed
TensorShape(m, t) ==
    IF t \in GraphInputNames(m)
    THEN (CHOOSE v \in Range(m.input) : v.name = t).shape
    ELSE LET k == CHOOSE j \in DOMAIN m.node : t \in Range(m.node[j].output)
             p == CHOOSE q \in DOMAIN m.node[k].output : m.node[k].output[q] = t
         IN  m.node[k].shape[p]

AxesNormalized(m, r) ==
    /\ Len(r.node) = Len(m.node)
    /\ \A k \in DOMAIN m.node :
          IF m.node[k].op_type # "ReduceMean" THEN r.node[k] = m.node[k]
          ELSE LET rank == Len(TensorShape(m, m.node[k].input[1]))
               IN  /\ Len(r.node[k].attribute) = Len(m.node[k].attribute)
                   /\ \A a \in DOMAIN m.node[k].attribute :
                         LET old == m.node[k].attribute[a]
                             new == r.node[k].attribute[a]
                         IN  IF old.name # "axes" THEN new = old
                             ELSE /\ Len(new.ints) = Len(old.ints)
                                  /\ \A i \in DOMAIN old.ints :
                                        new.ints[i] = IF old.ints[i] < 0
                                                      THEN rank + old.ints[i]
                                                      ELSE old.ints[i]

\* C5: for every ReduceMean node, whatever produces its input tensor of rank
\* r, resolve_reduce_mean_axis completes without error, rewrites each negative
\* axis a to r + a and leaves the others; a second application changes nothing.
C5_NegativeAxesResolved ==
    /\ pc \in {"resolve_reduce_mean_axis", "resolve_reduce_mean_axis_twice"} =>
          /\ ~ret.raised
          /\ AxesNormalized(onnx_model, ret.model)
    /\ pc = "resolve_reduce_mean_axis_twice" =>
          /\ ~ret2.raised
          /\ ret2.model = ret.model

(***************************************************************************)
(* reshape_output on a producer P with one or two outputs, y of rank r     *)
(* and z of rank rz, one or both of them graph outputs, y optionally read  *)
(* by a further node.  The node is named like its output y or not.         *)
(***************************************************************************)
\* a shape of rank r with the distinct dimensions 2, 3, ...
ShapeOfRank(r) == [k \in 1..r |-> k + 1]

OutModel(pn, outs, r, rz, gouts, consumer) ==
    LET y == <<"y">>
        z == <<"z">>
        shapeof(t) == IF t = y THEN ShapeOfRank(r) ELSE ShapeOfRank(rz)
    IN  Model(<<Node(pn, "Split", <<<<"x">>>>, outs, <<>>, SeqMap(shapeof, outs))>>
              \o (IF consumer
                  THEN <<Node(<<"c">>, "Relu", <<y>>, <<<<"w">>>>, <<>>, <<ShapeOfRank(r)>>)>>
                  ELSE <<>>),
              <<>>,
              <<ValueInfo(<<"x">>, ShapeOfRank(r))>>,
              SeqMap(LAMBDA t : ValueInfo(t, shapeof(t)), gouts),
              13)

OutModels ==
    {OutModel(pn, outs, r, rz, gouts, consumer) :
        pn \in {<<"y">>, <<"P">>},
        outs \in {<< <<"y">> >>, << <<"y">>, <<"z">> >>, << <<"z">>, <<"y">> >>},
        r \in 1..(MaxDim + 1),
        rz \in {2, 4},
        gouts \in {<< <<"y">> >>, << <<"y">>, <<"z">> >>},
        consumer \in BOOLEAN}

InitOut == PassInit({m \in OutModels : GraphOutputNames(m) \subseteq NodeOutputs(m)})

Call_reshape_output ==
    /\ pc = "start"
    /\ ret' = reshape_output(onnx_model)
    /\ pc' = "reshape_output"
    /\ UNCHANGED <<onnx_model, ret2, pipeline_vars>>

NextOut == Call_reshape_output

SpecOut == InitOut /\ [][NextOut]_vars

\* the index of the node of m that produces tensor t
Producer(m, t) == CHOOSE k \in DOMAIN m.node : t \in Range(m.node[k].output)

\* graph output o of m, of rank < 4, is padded in r
Padded(m, r, o) ==
    LET name == m.output[o].name
        dims == TensorShape(m, name)
        p == Producer(m, name)
    IN  /\ r.output[o].name = name
        /\ r.output[o].shape = <<dims[1]>> \o Ones(4 - Len(dims)) \o Tail(dims)
        /\ \E k \in DOMAIN r.node :
              /\ k > Len(m.node)
              /\ r.node[k].op_type = "Reshape"
              /\ r.node[k].output = <<name>>
              /\ r.node[k].input[1] \notin AllNames(m)
              /\ Len(r.node[p].output) = Len(m.node[p].output)
              /\ \A q \in DOMAIN m.node[p].output :
                    r.node[p].output[q] =
                        IF m.node[p].output[q] = name THEN r.node[k].input[1]
                        ELSE IF m.node[p].output[q] \in
                                   {m.output[j].name : j \in {i \in DOMAIN m.output :
                                        Len(TensorShape(m, m.output[i].name)) < 4}}
                             THEN r.node[p].output[q]
                             ELSE m.node[p].output[q]

\* graph output o of m, of rank >= 4, is left alone, and so is its producer
\* unless that node also produces an output that is padded
Untouched(m, r, o) ==
    LET name == m.output[o].name
        p == Producer(m, name)
    IN  /\ r.output[o] = m.output[o]
        /\ (\A j \in DOMAIN m.output :
               m.output[j].name \in Range(m.node[p].output)
                   => Len(TensorShape(m, m.output[j].name)) >= 4)
              => r.node[p] = m.node[p]

\* C7: every graph output of rank r < 4 and shape [d0, d1, ..] is declared
\* [d0] + ones(4 - r) + [d1, ..] after reshape_output; a new Reshape node
\* outputs the original name and reads a name used nowhere before; the
\* producer writes that fresh name at the position that held the original
\* name, its other outputs keeping their positions; outputs of rank >= 4 and
\* their producers are unchanged.
C7_OutputPadded ==
    pc = "reshape_output" =>
        /\ ~ret.raised
        /\ Len(ret.model.output) = Len(onnx_model.output)
        /\ \A o \in DOMAIN onnx_model.output :
              IF Len(TensorShape(onnx_model, onnx_model.output[o].name)) < 4
              THEN Padded(onnx_model, ret.model, o)
              ELSE Untouched(onnx_model, ret.model, o)

(***************************************************************************)
(* merge_slice on two tensors t1 and t2 of shape [MaxDim, MaxDim], each    *)
(* with its producer node and its own Slice nodes.  The producers are      *)
(* named like their output tensors or not.                                 *)
(***************************************************************************)
\* a Slice: its half-open range and its axis
SliceParams == {p \in [starts : 0..MaxDim, ends : 0..MaxDim, axis : {0, 1}] : p.starts < p.ends}

FullShape == <<MaxDim, MaxDim>>

SliceShape(p) == [d \in 1..2 |-> IF d = p.axis + 1 THEN p.ends - p.starts ELSE MaxDim]

\* the Slice node named n on tensor t, writing n:o, and its three initializers
SliceNode(n, t, p) ==
    Node(n, "Slice", <<t, n \o <<"s">>, n \o <<"e">>, n \o <<"a">>>>, <<n \o <<"o">>>>, <<>>,
         <<SliceShape(p)>>)

SliceInits(n, p) ==
    <<Tensor(n \o <<"s">>, <<p.starts>>), Tensor(n \o <<"e">>, <<p.ends>>),
      Tensor(n \o <<"a">>, <<p.axis>>)>>

\* the Slice groups drawn for t1: one or two slices, any ranges and axes
Group1 == {<<p>> : p \in SliceParams} \cup {<<p, q>> : p, q \in SliceParams}

SliceOf(starts, ends, axis) == [starts |-> starts, ends |-> ends, axis |-> axis]

\* the Slice groups drawn for t2: none, one slice, a pair and a triple that
\* partition axis 0, and a pair that overlaps
Group2 ==
    {<<>>,
     <<SliceOf(0, 1, 0)>>,
     <<SliceOf(1, MaxDim, 0), SliceOf(0, 1, 0)>>,
     <<SliceOf(0, 1, 0), SliceOf(2, MaxDim, 0), SliceOf(1, 2, 0)>>,
     <<SliceOf(0, 2, 1), SliceOf(1, MaxDim, 1)>>}

SliceModel(g1, g2, order, named, opset) ==
    LET t1 == <<"t", "1">>
        t2 == <<"t", "2">>
        n1(i) == <<"a", "1", "2", "3">>[i]
        n2(i) == <<"b", "1", "2", "3">>[i]
        name1(i) == <<"a", n1(i + 1)>>
        name2(i) == <<"b", n2(i + 1)>>
        producers ==
            <<Node(IF named THEN t1 ELSE <<"/", "p", "1">>, "Relu", <<<<"x">>>>, <<t1>>, <<>>,
                   <<FullShape>>),
              Node(IF named THEN t2 ELSE <<"/", "p", "2">>, "Relu", <<<<"x">>>>, <<t2>>, <<>>,
                   <<FullShape>>)>>
        s1 == [i \in DOMAIN g1 |-> SliceNode(name1(i), t1, g1[i])]
        s2 == [i \in DOMAIN g2 |-> SliceNode(name2(i), t2, g2[i])]
        slices == IF order = "12" THEN s1 \o s2
                  ELSE IF order = "21" THEN s2 \o s1
                  ELSE <<s1[1]>> \o s2 \o Tail(s1)
        RECURSIVE Inits(_, _, _)
        Inits(g, nm(_), i) ==
            IF i > Len(g) THEN <<>> ELSE SliceInits(nm(i), g[i]) \o Inits(g, nm, i + 1)
    IN  Model(producers \o slices,
              Inits(g1, name1, 1) \o Inits(g2, name2, 1),
              <<ValueInfo(<<"x">>, FullShape)>>,
              [i \in DOMAIN slices |-> ValueInfo(slices[i].output[1], slices[i].shape[1])],
              opset)

SliceModels ==
    {SliceModel(g1, g2, order, named, opset) :
        g1 \in Group1, g2 \in Group2, order \in {"12", "21", "121"},
        named \in BOOLEAN, opset \in {11, 13}}

InitSlice == PassInit(SliceModels)

Call_merge_slice ==
    /\ pc = "start"
    /\ ret' = merge_slice(onnx_model)
    /\ pc' = "merge_slice"
    /\ UNCHANGED <<onnx_model, ret2, pipeline_vars>>

NextSlice == Call_merge_slice

SpecSlice == InitSlice /\ [][NextSlice]_vars

\* the tensors of m that two or more Slice nodes read
SliceGroups(m) ==
    {t \in NodeInputs(m) :
        Cardinality({k \in DOMAIN m.node :
            m.node[k].op_type = "Slice" /\ m.node[k].input[1] = t}) >= 2}

\* the three criteria, on the group's slices sorted by start
SameAxis(g) == \A i \in DOMAIN g : g[i].axis = g[1].axis

Contiguous(g) == \A i \in 2..Len(g) : g[i].starts = g[i - 1].ends

CoversDim(m, t, g) == SumSeq(Widths(g)) = DimAt(TensorShape(m, t), g[1].axis)

Accepted(m, t) ==
    LET g == SliceNodes(m, t)
    IN  SameAxis(g) /\ Contiguous(g) /\ CoversDim(m, t, g)

\* the Slice nodes of m on tensor t are all nodes of r, and r has no Split on t
LeftAsSlices(m, r, t) ==
    /\ \A k \in DOMAIN m.node :
          (m.node[k].op_type = "Slice" /\ m.node[k].input[1] = t)
              => m.node[k] \in Range(r.node)
    /\ ~\E j \in DOMAIN r.node : r.node[j].op_type = "Split" /\ r.node[j].input[1] = t

\* C3: a group of two or more Slice nodes on one tensor is replaced by a
\* Split only if its slices share one axis, are contiguous when sorted by
\* start, and their widths sum to the size of the sliced dimension; a group
\* failing any of the three is left as its Slice nodes.
C3_MergeOnlyAccepted ==
    (pc = "merge_slice" /\ ~ret.raised) =>
        \A t \in SliceGroups(onnx_model) :
            ~Accepted(onnx_model, t) => LeftAsSlices(onnx_model, ret.model, t)

\* the widths a Split node of r splits into
SplitWidths(r, node) ==
    IF r.opset < 13
    THEN (CHOOSE a \in Range(node.attribute) : a.name = "split").ints
    ELSE (CHOOSE i \in Range(r.initializer) : i.name = node.input[2]).val

\* the accepted group on t is one Split in r, with the group's widths and outputs
ReplacedBySplit(m, r, t) ==
    LET g == SliceNodes(m, t)
        splits == {j \in DOMAIN r.node : r.node[j].op_type = "Split" /\ r.node[j].input[1] = t}
    IN  /\ Cardinality(splits) = 1
        /\ \A j \in splits :
              /\ SplitWidths(r, r.node[j]) = Widths(g)
              /\ r.node[j].output = [i \in DOMAIN g |-> m.node[g[i].node].output[1]]
        /\ \A i \in DOMAIN g : m.node[g[i].node] \notin Range(r.node)

\* the nodes of m that are not Slice nodes of an accepted group are nodes of
\* r, and no Split of r writes one of their outputs
OthersKept(m, r) ==
    \A k \in DOMAIN m.node :
        ~(/\ m.node[k].op_type = "Slice"
          /\ m.node[k].input[1] \in SliceGroups(m)
          /\ Accepted(m, m.node[k].input[1]))
        => /\ m.node[k] \in Range(r.node)
           /\ \A j \in DOMAIN r.node :
                 r.node[j].op_type = "Split"
                     => Range(r.node[j].output) \cap Range(m.node[k].output) = {}

\* every group of m the three criteria reject is rejected by the width sum
\* alone, which the code does test: the graphs on which the code accepts
\* exactly the groups the criteria accept
GroupsJudgedAsStated(m) ==
    \A t \in SliceGroups(m) : Accepted(m, t) \/ ~CoversDim(m, t, SliceNodes(m, t))

\* C4: with any number of Slice groups, every accepted group is replaced by
\* exactly one Split reading the group's tensor, splitting into the group's
\* widths in ascending start order and writing the group's Slice outputs in
\* that order; the group's Slice nodes are gone, and no node of another
\* group is removed or has its outputs taken over.  Stated on the graphs
\* whose groups the code judges as the criteria do.
C4_SplitPerGroup ==
    (pc = "merge_slice" /\ ~ret.raised /\ GroupsJudgedAsStated(onnx_model)) =>
        /\ \A t \in SliceGroups(onnx_model) :
              Accepted(onnx_model, t) => ReplacedBySplit(onnx_model, ret.model, t)
        /\ OthersKept(onnx_model, ret.model)

(***************************************************************************)
(* fuse_conv_and_bn on  first: x -> c,  BatchNormalization: c -> y  and an *)
(* optional Relu reading y, where first is a Conv with or without a bias,  *)
(* a Relu, or absent (the BatchNormalization reads the graph input).  The  *)
(* first node is named like its output tensor or not.                      *)
(***************************************************************************)
FuseModel(first, bias, named, consumer, mean, eps) ==
    LET x == <<"x">>
        c == IF first = "input" THEN x ELSE <<"c">>
        y == <<"y">>
        fname == IF named THEN c ELSE <<"/", "c">>
        head == IF first = "input" THEN <<>>
                ELSE IF first = "Relu"
                     THEN <<Node(fname, "Relu", <<x>>, <<c>>, <<>>, <<<<1, 2, 2, 2>>>>)>>
                     ELSE <<Node(fname, "Conv",
                                 IF bias THEN <<x, <<"w">>, <<"b">>>> ELSE <<x, <<"w">>>>,
                                 <<c>>, <<>>, <<<<1, 2, 2, 2>>>>)>>
        bn == Node(<<"b", "n">>, "BatchNormalization",
                   <<c, <<"s">>, <<"b", "b">>, <<"m">>, <<"v">>>>, <<y>>,
                   <<Attribute("epsilon", <<>>, eps), Attribute("momentum", <<>>, 9)>>,
                   <<<<1, 2, 2, 2>>>>)
        tail == IF consumer
                THEN <<Node(<<"r">>, "Relu", <<y>>, <<<<"z">>>>, <<>>, <<<<1, 2, 2, 2>>>>)>>
                ELSE <<>>
    IN  Model(head \o <<bn>> \o tail,
              <<Tensor(<<"w">>, Const(1)), Tensor(<<"b">>, Const(2)), Tensor(<<"s">>, Const(3)),
                Tensor(<<"b", "b">>, Const(4)), Tensor(<<"m">>, Const(mean)),
                Tensor(<<"v">>, Const(6))>>,
              <<ValueInfo(x, <<1, 2, 2, 2>>)>>,
              <<ValueInfo(IF consumer THEN <<"z">> ELSE y, <<1, 2, 2, 2>>)>>,
              13)

FuseModels ==
    {FuseModel(first, bias, named, consumer, mean, eps) :
        first \in {"Conv", "Relu", "input"}, bias \in BOOLEAN, named \in BOOLEAN,
        consumer \in BOOLEAN, mean \in {0, 5}, eps \in {1, 2, 3}}

InitFuse == PassInit(FuseModels)

Call_fuse_conv_and_bn ==
    /\ pc = "start"
    /\ ret' = fuse_conv_and_bn(onnx_model)
    /\ pc' = "fuse_conv_and_bn"
    /\ UNCHANGED <<onnx_model, ret2, pipeline_vars>>

NextFuse == Call_fuse_conv_and_bn

SpecFuse == InitFuse /\ [][NextFuse]_vars

\* the value of the initializer of m named n
InitializerValue(m, n) == (CHOOSE t \in Range(m.initializer) : t.name = n).val

\* the BatchNormalization nodes of m whose first input a Conv node produces
FusedBN(m) ==
    {k \in DOMAIN m.node :
        /\ m.node[k].op_type = "BatchNormalization"
        /\ m.node[k].input[1] \in NodeOutputs(m)
        /\ m.node[Producer(m, m.node[k].input[1])].op_type = "Conv"}

\* the BatchNormalization node bn of m is folded in r into its Conv
Folded(m, r, bn) ==
    LET bn_node == m.node[bn]
        conv_node == m.node[Producer(m, bn_node.input[1])]
        val(n) == InitializerValue(m, n)
        eps == (CHOOSE a \in Range(bn_node.attribute) : a.name = "epsilon").f
        conv_bias == IF Len(conv_node.input) = 3 THEN val(conv_node.input[3])
                     ELSE Zeros(val(conv_node.input[2]))
        new_weight == NewWeight(val(conv_node.input[2]), val(bn_node.input[2]),
                                val(bn_node.input[5]), eps)
        new_bias == NewBias(conv_bias, val(bn_node.input[2]), val(bn_node.input[3]),
                            val(bn_node.input[4]), val(bn_node.input[5]), eps)
    IN  /\ bn_node.name \notin NodeNames(r)
        /\ \E j \in DOMAIN r.node : r.node[j].name = conv_node.name
        /\ \A j \in DOMAIN r.node :
              r.node[j].name = conv_node.name =>
                  /\ r.node[j].op_type = "Conv"
                  /\ r.node[j].output[1] = bn_node.output[1]
                  /\ Len(r.node[j].input) = 3
                  /\ r.node[j].input[2] \in InitializerNames(r)
                  /\ \A t \in Range(r.initializer) :
                        t.name = r.node[j].input[2] => t.val = new_weight
                  /\ r.node[j].input[3] \in InitializerNames(r)
                  /\ \A t \in Range(r.initializer) :
                        t.name = r.node[j].input[3] => t.val = new_bias

\* C6: after fuse_conv_and_bn every BatchNormalization node behind a Conv is
\* gone, the Conv writes the BatchNormalization's output name, its weight
\* input names an initializer holding the folded weight and its bias input
\* one holding the folded bias (from the Conv's bias, or from zeros when it
\* had none); every other BatchNormalization node and every other node is
\* kept unchanged.
C6_ConvBNFused ==
    pc = "fuse_conv_and_bn" =>
        /\ ~ret.raised
        /\ \A k \in FusedBN(onnx_model) : Folded(onnx_model, ret.model, k)
        /\ \A k \in DOMAIN onnx_model.node :
              (/\ k \notin FusedBN(onnx_model)
               /\ ~\E b \in FusedBN(onnx_model) :
                      k = Producer(onnx_model, onnx_model.node[b].input[1]))
                  => onnx_model.node[k] \in Range(ret.model.node)

(***************************************************************************)
(* process(args): load the model, apply the modifiers in order, check the  *)
(* result and offer it for download.  An exception of a modifier or of     *)
(* the checker leaves process() at once.                                   *)
(***************************************************************************)
\* the modifiers main() can put on the list that the model runs
Registry ==
    {"replace_input_name", "replace_output_name", "simplify_name",
     "resolve_reduce_mean_axis", "reshape_output"}

\* fn(onnx_model) for the modifier named fn
Apply(fn, model) ==
    CASE fn = "replace_input_name" -> replace_input_name(model)
      [] fn = "replace_output_name" -> replace_output_name(model)
      [] fn = "simplify_name" -> simplify_name(model)
      [] fn = "resolve_reduce_mean_axis" -> resolve_reduce_mean_axis(model)
      [] fn = "reshape_output" -> reshape_output(model)

ModifierLists == UNION {[1..n -> Registry] : n \in 0..MaxModifiers}

PipelineModels ==
    {ReduceModel("ReduceMean", 2, <<-1>>),
     ReduceModel("input", 2, <<-1>>),
     OutModel(<<"y">>, << <<"y">> >>, 2, 2, << <<"y">> >>, FALSE),
     NameModel(<<"/", "a">>, <<"/", "w">>, TRUE)}

InitProcess ==
    /\ pc = "process"
    /\ onnx_model = EmptyModel
    /\ ret = NoRet
    /\ ret2 = NoRet
    /\ args \in {Args(f, m, i) : f \in PipelineModels, m \in ModifierLists, i \in BOOLEAN}
    /\ fn_idx = 0
    /\ invoked = <<>>
    /\ checked = <<>>
    /\ emitted = <<>>
    /\ error = NoError

\* onnx_model = onnx.load(args.onnx_file)
LoadModel ==
    /\ pc = "process"
    /\ onnx_model' = args.onnx_file
    /\ fn_idx' = 1
    /\ pc' = "loop"
    /\ UNCHANGED <<ret, ret2, args, invoked, checked, emitted, error>>

\* a slip: the modifier's exception is caught and the loop goes on with the
\* model it had
ApplyModifier_swallow ==
    /\ pc = "loop"
    /\ fn_idx <= Len(args.modifiers)
    /\ LET fn == args.modifiers[fn_idx]
           r == Apply(fn, onnx_model)
       IN  /\ invoked' = Append(invoked, [fn |-> fn, arg |-> onnx_model, ret |-> r])
           /\ onnx_model' = IF r.raised THEN onnx_model ELSE r.model
           /\ emitted' = IF args.save_intermediate /\ ~r.raised
                         THEN Append(emitted, [button |-> fn, data |-> r.model])
                         ELSE emitted
           /\ fn_idx' = fn_idx + 1
           /\ UNCHANGED <<pc, error>>
    /\ UNCHANGED <<ret, ret2, args, checked>>

\* one turn of: for fn in args.modifiers
ApplyModifier ==
    /\ pc = "loop"
    /\ fn_idx <= Len(args.modifiers)
    /\ LET fn == args.modifiers[fn_idx]
           r == Apply(fn, onnx_model)
       IN  /\ invoked' = Append(invoked, [fn |-> fn, arg |-> onnx_model, ret |-> r])
           /\ IF r.raised
              THEN /\ pc' = "raised"
                   /\ error' = [raised_by |-> fn, error |-> r.error]
                   /\ UNCHANGED <<onnx_model, emitted, fn_idx>>
              ELSE /\ onnx_model' = r.model
                   /\ emitted' = IF args.save_intermediate
                                 THEN Append(emitted, [button |-> fn, data |-> r.model])
                                 ELSE emitted
                   /\ fn_idx' = fn_idx + 1
                   /\ UNCHANGED <<pc, error>>
    /\ UNCHANGED <<ret, ret2, args, checked>>

\* a slip: the result is offered whatever the checker said
CheckModel_emit_always ==
    /\ pc = "loop"
    /\ fn_idx > Len(args.modifiers)
    /\ \E valid \in BOOLEAN :
          /\ checked' = Append(checked, [model |-> onnx_model, valid |-> valid])
          /\ pc' = "done"
          /\ emitted' = Append(emitted, [button |-> "result", data |-> onnx_model])
          /\ UNCHANGED error
    /\ UNCHANGED <<onnx_model, ret, ret2, args, fn_idx, invoked>>

\* after the loop: onnx.checker.check_model(onnx_model), which raises or
\* returns, and then the download button of the result
CheckModel ==
    /\ pc = "loop"
    /\ fn_idx > Len(args.modifiers)
    /\ \E valid \in BOOLEAN :
          /\ checked' = Append(checked, [model |-> onnx_model, valid |-> valid])
          /\ IF valid
             THEN /\ pc' = "done"
                  /\ emitted' = Append(emitted, [button |-> "result", data |-> onnx_model])
                  /\ UNCHANGED error
             ELSE /\ pc' = "raised"
                  /\ error' = [raised_by |-> "check_model", error |-> "ValidationError"]
                  /\ UNCHANGED emitted
    /\ UNCHANGED <<onnx_model, ret, ret2, args, fn_idx, invoked>>

Next == LoadModel \/ ApplyModifier \/ CheckModel

Spec == InitProcess /\ [][Next]_vars

ResultEmitted == \E e \in Range(emitted) : e.button = "result"

\* C1: if pass k of the list raises, no later pass is invoked, the checker
\* is not invoked, no result is offered, and process() ends with the error
\* pass k raised.
C1_FailFast ==
    \A k \in DOMAIN invoked :
        invoked[k].ret.raised =>
            /\ invoked[k].fn = args.modifiers[k]
            /\ Len(invoked) = k
            /\ checked = <<>>
            /\ ~ResultEmitted
            /\ pc = "raised"
            /\ error = [raised_by |-> args.modifiers[k], error |-> invoked[k].ret.error]

\* the second of three passes raised, after the first had changed the model
C1_Witness ==
    /\ pc = "raised"
    /\ Len(args.modifiers) = 3
    /\ Len(invoked) = 2
    /\ invoked[2].ret.raised
    /\ invoked[2].arg # args.onnx_file

\* C2: the passes are invoked in the order of the list, each on the model
\* the one before returned (the first on the loaded model); the checker is
\* invoked at most once, only after the last pass returned and on its
\* output, and exactly once in a run all of whose passes returned; the
\* result is offered only if the check succeeded.
C2_OrderAndGate ==
    /\ Len(invoked) <= Len(args.modifiers)
    /\ \A k \in DOMAIN invoked :
          /\ invoked[k].fn = args.modifiers[k]
          /\ invoked[k].arg = IF k = 1 THEN args.onnx_file ELSE invoked[k - 1].ret.model
          /\ k > 1 => ~invoked[k - 1].ret.raised
    /\ Len(checked) <= 1
    /\ checked # <<>> =>
          /\ Len(invoked) = Len(args.modifiers)
          /\ \A k \in DOMAIN invoked : ~invoked[k].ret.raised
          /\ checked[1].model = IF invoked = <<>> THEN args.onnx_file
                                ELSE invoked[Len(invoked)].ret.model
    /\ (pc \in {"done", "raised"} /\ \A k \in DOMAIN invoked : ~invoked[k].ret.raised)
          => Len(checked) = 1
    /\ \A e \in Range(emitted) :
          e.button = "result" =>
              /\ checked # <<>>
              /\ checked[1].valid
              /\ e.data = checked[1].model

\* a run of two passes that both changed the model, checked and offered
C2_Witness ==
    /\ pc = "done"
    /\ Len(invoked) = 2
    /\ invoked[1].ret.model # args.onnx_file
    /\ invoked[2].ret.model # invoked[1].ret.model
    /\ ResultEmitted

(***************************************************************************)
(* add_reshape_after_matmul and reshape_output on graphs in topological    *)
(* order.  A MatMul m: (a, b) -> y of rank r, optionally followed by a     *)
(* second node that reads y or the graph input a; the graph output is the  *)
(* last tensor produced.  The graphs of reshape_output are those above.    *)
(***************************************************************************)
\* the shape of b in a @ b for a of shape ShapeOfRank(r): the product has a's shape
MatMulOperand(r) == [k \in 1..r |-> IF k = r - 1 THEN r + 1 ELSE k + 1]

MatModel(mn, r, second, op2, reads) ==
    LET y == <<"y">>
        w == <<"w">>
        a == <<"a">>
        b == <<"b">>
    IN  Model(<<Node(mn, "MatMul", <<a, b>>, <<y>>, <<>>, <<ShapeOfRank(r)>>)>>
              \o (IF second
                  THEN <<Node(<<"c">>, op2,
                              IF op2 = "MatMul" THEN <<reads, b>> ELSE <<reads>>,
                              <<w>>, <<>>, <<ShapeOfRank(r)>>)>>
                  ELSE <<>>),
              <<>>,
              <<ValueInfo(a, ShapeOfRank(r)), ValueInfo(b, MatMulOperand(r))>>,
              <<ValueInfo(IF second THEN w ELSE y, ShapeOfRank(r))>>,
              13)

MatModels ==
    {MatModel(mn, r, second, op2, reads) :
        mn \in {<<"m">>, <<"y">>},
        r \in 2..(MaxDim + 1),
        second \in BOOLEAN,
        op2 \in {"Relu", "MatMul"},
        reads \in {<<"y">>, <<"a">>}}

\* every node comes after the producers of all its inputs
TopologicalOrder(m) ==
    \A k \in DOMAIN m.node : \A j \in DOMAIN m.node :
        Range(m.node[j].output) \cap Range(m.node[k].input) # {} => j < k

InitTopo ==
    PassInit({m \in MatModels \cup OutModels :
                 /\ TopologicalOrder(m)
                 /\ GraphOutputNames(m) \subseteq NodeOutputs(m)})

Call_add_reshape_after_matmul ==
    /\ pc = "start"
    /\ ret' = add_reshape_after_matmul(onnx_model)
    /\ pc' = "add_reshape_after_matmul"
    /\ UNCHANGED <<onnx_model, ret2, pipeline_vars>>

NextTopo == Call_add_reshape_after_matmul \/ Call_reshape_output

SpecTopo == InitTopo /\ [][NextTopo]_vars

\* C11: when the argument graph is in topological order (every node after
\* the producers of all its inputs), so is the graph add_reshape_after_matmul
\* returns and the graph reshape_output returns, also when the rewritten
\* MatMul output or the padded graph output is read by other nodes.
C11_TopologicalOrderKept ==
    (/\ pc \in {"add_reshape_after_matmul", "reshape_output"}
     /\ ~ret.raised
     /\ TopologicalOrder(onnx_model))
        => TopologicalOrder(ret.model)

(***************************************************************************)
(* The shape lookups of merge_slice and reshape_output, on the graphs of   *)
(* both passes: every graph output is a node output and every sliced       *)
(* tensor has a producer node, named like the tensor or not.               *)
(***************************************************************************)
InitLookup ==
    PassInit(SliceModels \cup {m \in OutModels : GraphOutputNames(m) \subseteq NodeOutputs(m)})

NextLookup == Call_merge_slice \/ Call_reshape_output

SpecLookup == InitLookup /\ [][NextLookup]_vars

\* the keys merge_slice looks up in output_dims: the tensors of the groups
\* of two or more Slice nodes
merge_slice_lookups(m) ==
    {t \in Range(SliceKeys(m, 1, {})) : Len(SliceNodes(m, t)) # 1}

\* the keys reshape_output looks up in output_dims: the graph output names
reshape_output_lookups(m) == GraphOutputNames(m)

\* C12: every shape lookup of merge_slice (the shared input tensor of each
\* Slice group) and of reshape_output (each graph output tensor) finds its
\* key in the map infer_shapes returned to that call, whatever the nodes are
\* named, so neither pass ends in a KeyError.
C12_ShapeLookupsHit ==
    /\ pc = "merge_slice" =>
          /\ merge_slice_lookups(onnx_model) \subseteq
                 DOMAIN infer_shapes(onnx_model, {}, Range(SliceKeys(onnx_model, 1, {})))
          /\ ~(ret.raised /\ ret.error = "KeyError")
    /\ pc = "reshape_output" =>
          /\ reshape_output_lookups(onnx_model) \subseteq
                 DOMAIN infer_shapes(onnx_model, {}, GraphOutputNames(onnx_model))
          /\ ~(ret.raised /\ ret.error = "KeyError")

====
